---- MODULE Spec2Model ----
(***************************************************************************)
(* Model of openedx/core/djangoapps/oauth_dispatch:                        *)
(*   dot_overrides/views.py  EdxOAuth2AuthorizationView.get                *)
(*   models.py               RestrictedApplication, ScopedApplication      *)
(*   scopes.py               ApplicationModelScopes                        *)
(* Timestamps are instants counted from 1970-01-01T00:00:00 UTC, which is  *)
(* what equality of timezone-aware datetimes compares.                     *)
(***************************************************************************)
EXTENDS Integers, Sequences, FiniteSets, TLC

\* ---- bounds of the model ------------------------------------------------
MaxPrior == 1       \* rows the table holds when the model starts
MaxScopes == 2      \* entries of an application's declared scope list
Now == 2            \* the instant at which the modelled requests are served
Lifetime == 1       \* lifetime given to a freshly issued token
MaxApply == 2       \* calls of set_access_token_as_expired on one token
MaxOrgs == 2        \* organizations associated with one application

\* ---- program constants --------------------------------------------------
Epoch == 0          \* datetime(1970, 1, 1, tzinfo=utc)

Requests == {1, 2}                  \* request handlers that may run at once
Users == {"u1", "u2"}               \* owners of token rows
Visitors == {"u1"}                  \* users who send the modelled requests
ClientIds == {1, 2}                 \* 1: a third-party client, 2: an in-house client
ScopeLists == {<<"read">>, <<"read", "write">>}   \* scope lists a request may ask for
ScopeNames == {"read", "write", "stale"}           \* names an application may declare
ApprovalPrompts == {"unset", "auto", "auto_even_if_expired"}
ApprovalDefaults == {"force", "auto_even_if_expired"}
GrantTypes == {"authorization-code", "implicit", "password", "client-credentials"}
ShortNames == {"org1", "org2", "org3"}             \* short names of organizations

NoToken == [user |-> "none", application |-> 0, scope |-> <<>>, expires |-> Epoch]
NoRequest == [user |-> "none", client_id |-> 0, scope |-> <<>>, approval_prompt |-> "unset"]
NoIssuance == [scopes |-> <<>>, allow |-> FALSE, client_id |-> 0]

VARIABLES
    AccessToken,              \* the AccessToken table, in insertion order
    restricted,               \* client ids that have a RestrictedApplication row
    skip_authorization,       \* Application.skip_authorization of every client
    REQUEST_APPROVAL_PROMPT,  \* oauth2_settings.REQUEST_APPROVAL_PROMPT
    workers,                  \* the request handlers the server runs
    pc,                       \* position of every handler inside get()
    request,                  \* the GET request a handler is serving
    require_approval,         \* local of get()
    seen,                     \* rows the table held when the handler queried it
    token,                    \* the prior token on which the scan stopped
    issuance,                 \* arguments of create_authorization_response
    saved,                    \* id of the AccessToken row that call saved, 0 for none
    did,                      \* calls made by get(), in order
    response,                 \* what get() returned
    client,                   \* the application handed to get_available_scopes
    all_scopes,               \* keys of the global scope registry
    available,                \* outcome of get_available_scopes
    subject,                  \* the token handed to the RestrictedApplication methods
    original,                 \* that token as it was first
    applied,                  \* calls of set_access_token_as_expired so far
    verified,                 \* the last call of verify_access_token_as_expired
    scoped,                   \* the ScopedApplication whose filters are asked for
    filters                   \* outcome of authorization_filters

engine == <<AccessToken, restricted, skip_authorization, REQUEST_APPROVAL_PROMPT, workers, pc,
            request, require_approval, seen, token, issuance, saved, did, response>>
catalog == <<client, all_scopes, available>>
trust == <<subject, original, applied, verified>>
deriver == <<scoped, filters>>
vars == <<engine, catalog, trust, deriver>>

config == <<restricted, skip_authorization, REQUEST_APPROVAL_PROMPT, workers>>

\* ---- the external OAuth2 layer -------------------------------------------

\* " ".join(scopes): the words with a blank between each two
RECURSIVE Join(_)
Join(scopes) ==
    IF Len(scopes) <= 1 THEN scopes
    ELSE <<Head(scopes), " ">> \o Join(Tail(scopes))

\* str.split(): the words of a blank-separated string
Split(scope) == SelectSeq(scope, LAMBDA w : w # " ")

\* set(a_list)
ToSet(list) == {list[i] : i \in 1..Len(list)}

\* allow_scopes that is content with one shared scope
allow_scopes_any_overlap(t, scopes) ==
    IF Len(scopes) = 0 THEN TRUE
    ELSE ToSet(scopes) \cap ToSet(Split(t.scope)) # {}

\* allow_scopes that wants the token to record the requested scopes and no others
allow_scopes_exact(t, scopes) ==
    IF Len(scopes) = 0 THEN TRUE
    ELSE ToSet(scopes) = ToSet(Split(t.scope))

\* AccessToken.allow_scopes(scopes)
allow_scopes(t, scopes) ==
    IF Len(scopes) = 0 THEN TRUE
    ELSE ToSet(scopes) \subseteq ToSet(Split(t.scope))

\* ---- models.py: RestrictedApplication -------------------------------------

\* set_access_token_as_expired that backdates the token instead of using the epoch
set_access_token_as_expired_backdated(access_token) ==
    [access_token EXCEPT !.expires = Now - Lifetime]

\* set_access_token_as_expired that leaves a token alone once it lies in the past
set_access_token_as_expired_if_live(access_token) ==
    IF access_token.expires < Now THEN access_token
    ELSE [access_token EXCEPT !.expires = Epoch]

set_access_token_as_expired(access_token) ==
    [access_token EXCEPT !.expires = Epoch]

\* verify_access_token_as_expired that takes every expired token for a marked one
verify_access_token_as_expired_any_past(access_token) ==
    access_token.expires < Now

verify_access_token_as_expired(access_token) ==
    access_token.expires = Epoch

\* the pre-save hook of AccessToken: restricted applications get expired tokens
on_access_token_presave(instance, markers) ==
    IF instance.application \in markers
    THEN set_access_token_as_expired(instance)
    ELSE instance

\* the row create_authorization_response saves for an allowed request
new_access_token(user, client_id, scopes, markers) ==
    on_access_token_presave(
        [user |-> user, application |-> client_id, scope |-> scopes,
         expires |-> Now + Lifetime], markers)

\* ---- views.py: EdxOAuth2AuthorizationView.get -----------------------------

\* approval_prompt that does not fall back to the configured default
approval_prompt_without_default(GET, default) ==
    IF GET.approval_prompt = "unset" THEN "auto_even_if_expired" ELSE GET.approval_prompt

\* request.GET.get("approval_prompt", oauth2_settings.REQUEST_APPROVAL_PROMPT)
approval_prompt(GET, default) ==
    IF GET.approval_prompt = "unset" THEN default ELSE GET.approval_prompt

\* accesstoken_set with the filter expires__gt=timezone.now() left in
accesstoken_set_unexpired(store, user, client_id) ==
    SelectSeq(store, LAMBDA t : t.user = user /\ t.application = client_id
                                /\ t.expires > Now)

\* accesstoken_set that asks for the tokens of the application, whoever owns them
accesstoken_set_any_user(store, user, client_id) ==
    SelectSeq(store, LAMBDA t : t.application = client_id)

\* request.user.accesstoken_set.filter(application=...).all()
accesstoken_set(store, user, client_id) ==
    SelectSeq(store, LAMBDA t : t.user = user /\ t.application = client_id)

\* the orders in which the database may return the rows of a queryset
RetrievalOrders(rows) ==
    {[i \in 1..Len(rows) |-> rows[p[i]]] : p \in Permutations(1..Len(rows))}

\* a scan that gives up after the first token
scan_first_only(rows, scopes, i) ==
    IF i > Len(rows) THEN 0
    ELSE IF allow_scopes(rows[i], scopes) THEN i
    ELSE 0

\* for token in tokens: if token.allow_scopes(scopes): ... return
\* the index on which the loop stops, 0 when it runs to its end
RECURSIVE scan(_, _, _)
scan(rows, scopes, i) ==
    IF i > Len(rows) THEN 0
    ELSE IF allow_scopes(rows[i], scopes) THEN i
    ELSE scan(rows, scopes, i + 1)

Return(r, resp, calls) ==
    /\ pc' = [pc EXCEPT ![r] = "done"]
    /\ response' = [response EXCEPT ![r] = resp]
    /\ did' = [did EXCEPT ![r] = did[r] \o calls]

Goto(r, label, calls) ==
    /\ pc' = [pc EXCEPT ![r] = label]
    /\ did' = [did EXCEPT ![r] = did[r] \o calls]
    /\ UNCHANGED response

\* a test of the mode that lets every mode into the override
bypasses_override_never(mode) == FALSE

\* line 36: if require_approval != 'auto_even_if_expired'
bypasses_override(mode) == mode # "auto_even_if_expired"

\* a lookup that carries on without the application
objects_get_or_none(r, found) ==
    IF found
    THEN Goto(r, "skip_check", <<"validate_authorization_request", "objects.get">>)
    ELSE Goto(r, "skip_check",
              <<"validate_authorization_request", "objects.get", "DoesNotExist">>)

\* line 45: get_application_model().objects.get(client_id=...).  The row that validation
\* loaded may have been deleted since; DoesNotExist is no OAuthToolkitError, so the
\* except clause of line 88 lets it leave get().
objects_get(r, found) ==
    IF found
    THEN Goto(r, "skip_check", <<"validate_authorization_request", "objects.get">>)
    ELSE Return(r, "DoesNotExist",
                <<"validate_authorization_request", "objects.get", "DoesNotExist">>)

\* lines 25-55: read approval_prompt and hand every other mode to the base view, else
\* validate the request and look the application up.  Handlers are numbered in the
\* order in which their requests arrive.
get(r) ==
    /\ r \in workers
    /\ pc[r] = "idle"
    /\ \A q \in Requests : q < r => pc[q] # "idle"
    /\ \E u \in Visitors, c \in ClientIds, s \in ScopeLists, p \in ApprovalPrompts :
        LET GET == [user |-> u, client_id |-> c, scope |-> s, approval_prompt |-> p]
            ra == approval_prompt(GET, REQUEST_APPROVAL_PROMPT)
        IN
        /\ request' = [request EXCEPT ![r] = GET]
        /\ require_approval' = [require_approval EXCEPT ![r] = ra]
        /\ IF bypasses_override(ra)
           THEN Return(r, "Passthrough", <<"super.get">>)
           ELSE \E valid \in BOOLEAN, found \in BOOLEAN :
                IF valid
                THEN objects_get(r, found)
                ELSE Return(r, "Error", <<"validate_authorization_request", "error_response">>)
    /\ UNCHANGED <<AccessToken, config, seen, token, issuance, saved, catalog, trust, deriver>>

\* check_authorization without the branch on skip_authorization
check_authorization_without_skip(r) ==
    /\ pc[r] = "skip_check"
    /\ \E tokens \in RetrievalOrders(
               accesstoken_set(AccessToken, request[r].user, request[r].client_id)) :
        LET i == scan(tokens, request[r].scope, 1) IN
        /\ seen' = [seen EXCEPT ![r] = Len(AccessToken)]
        /\ IF i > 0
           THEN /\ Goto(r, "grant", <<"assert", "accesstoken_set.filter">>)
                /\ token' = [token EXCEPT ![r] = tokens[i]]
           ELSE /\ Return(r, "Prompt",
                          <<"assert", "accesstoken_set.filter", "render_to_response">>)
                /\ UNCHANGED token
    /\ UNCHANGED <<AccessToken, config, request, require_approval, issuance, saved, catalog, trust, deriver>>

\* lines 57-61, 67-78 and 84-86: the skip flag, then the scan of the prior tokens
check_authorization(r) ==
    /\ pc[r] = "skip_check"
    /\ IF skip_authorization[request[r].client_id]
       THEN /\ Goto(r, "grant", <<>>)
            /\ UNCHANGED <<seen, token>>
       ELSE IF require_approval[r] # "auto_even_if_expired"
       THEN /\ Return(r, "AssertionError", <<"assert">>)
            /\ UNCHANGED <<seen, token>>
       ELSE \E tokens \in RetrievalOrders(
                    accesstoken_set(AccessToken, request[r].user, request[r].client_id)) :
            LET i == scan(tokens, request[r].scope, 1) IN
            /\ seen' = [seen EXCEPT ![r] = Len(AccessToken)]
            /\ IF i > 0
               THEN /\ Goto(r, "grant", <<"assert", "accesstoken_set.filter">>)
                    /\ token' = [token EXCEPT ![r] = tokens[i]]
               ELSE /\ Return(r, "Prompt",
                              <<"assert", "accesstoken_set.filter", "render_to_response">>)
                    /\ UNCHANGED token
    /\ UNCHANGED <<AccessToken, config, request, require_approval, issuance, saved, catalog, trust, deriver>>

\* create_authorization_response that has saved the token when the error is raised
create_authorization_response_partial(r) ==
    /\ pc[r] = "grant"
    /\ issuance' = [issuance EXCEPT ![r] =
           [scopes |-> Join(request[r].scope), allow |-> TRUE,
            client_id |-> request[r].client_id]]
    /\ \E raised \in BOOLEAN :
        IF raised
        THEN Return(r, "Error", <<"create_authorization_response", "error_response">>)
        ELSE Return(r, "Grant", <<"create_authorization_response", "HttpResponseUriRedirect">>)
    /\ AccessToken' = Append(AccessToken,
           new_access_token(request[r].user, request[r].client_id,
                            Join(request[r].scope), restricted))
    /\ saved' = [saved EXCEPT ![r] = Len(AccessToken) + 1]
    /\ UNCHANGED <<config, request, require_approval, seen, token, catalog, trust, deriver>>

\* a scan that does not return on its first match: one call for every matching token
create_authorization_response_per_match(r) ==
    /\ pc[r] = "grant"
    /\ issuance' = [issuance EXCEPT ![r] =
           [scopes |-> Join(request[r].scope), allow |-> TRUE,
            client_id |-> request[r].client_id]]
    /\ LET matching == SelectSeq(
                accesstoken_set(AccessToken, request[r].user, request[r].client_id),
                LAMBDA t : allow_scopes(t, request[r].scope))
           k == IF skip_authorization[request[r].client_id] THEN 1 ELSE Len(matching)
           row == new_access_token(request[r].user, request[r].client_id,
                                   Join(request[r].scope), restricted)
       IN /\ Return(r, "Grant",
                    [i \in 1..k |-> "create_authorization_response"]
                    \o <<"HttpResponseUriRedirect">>)
          /\ AccessToken' = AccessToken \o [i \in 1..k |-> row]
          /\ saved' = [saved EXCEPT ![r] = Len(AccessToken) + 1]
    /\ UNCHANGED <<config, request, require_approval, seen, token, catalog, trust, deriver>>

\* create_authorization_response handed the scopes of the matching token
create_authorization_response_token_scopes(r) ==
    /\ pc[r] = "grant"
    /\ LET scopes == IF token[r] = NoToken THEN Join(request[r].scope) ELSE token[r].scope
       IN /\ issuance' = [issuance EXCEPT ![r] =
                 [scopes |-> scopes, allow |-> TRUE, client_id |-> request[r].client_id]]
          /\ Return(r, "Grant",
                    <<"create_authorization_response", "HttpResponseUriRedirect">>)
          /\ AccessToken' = Append(AccessToken,
                 new_access_token(request[r].user, request[r].client_id, scopes,
                                  restricted))
          /\ saved' = [saved EXCEPT ![r] = Len(AccessToken) + 1]
    /\ UNCHANGED <<config, request, require_approval, seen, token, catalog, trust, deriver>>

\* a grant that also renews the tokens the user already holds for the application
create_authorization_response_renewing(r) ==
    /\ pc[r] = "grant"
    /\ issuance' = [issuance EXCEPT ![r] =
           [scopes |-> Join(request[r].scope), allow |-> TRUE,
            client_id |-> request[r].client_id]]
    /\ Return(r, "Grant", <<"create_authorization_response", "HttpResponseUriRedirect">>)
    /\ AccessToken' = Append(
           [i \in 1..Len(AccessToken) |->
               IF /\ AccessToken[i].user = request[r].user
                  /\ AccessToken[i].application = request[r].client_id
               THEN [AccessToken[i] EXCEPT !.expires = Now + Lifetime]
               ELSE AccessToken[i]],
           new_access_token(request[r].user, request[r].client_id,
                            Join(request[r].scope), restricted))
    /\ saved' = [saved EXCEPT ![r] = Len(AccessToken) + 1]
    /\ UNCHANGED <<config, request, require_approval, seen, token, catalog, trust, deriver>>

\* lines 62-65 and 79-82: create_authorization_response, then the redirect
create_authorization_response(r) ==
    /\ pc[r] = "grant"
    /\ issuance' = [issuance EXCEPT ![r] =
           [scopes |-> Join(request[r].scope), allow |-> TRUE,
            client_id |-> request[r].client_id]]
    /\ \E raised \in BOOLEAN :
        IF raised
        THEN /\ Return(r, "Error", <<"create_authorization_response", "error_response">>)
             /\ UNCHANGED <<AccessToken, saved>>
        ELSE /\ Return(r, "Grant",
                       <<"create_authorization_response", "HttpResponseUriRedirect">>)
             /\ AccessToken' = Append(AccessToken,
                    new_access_token(request[r].user, request[r].client_id,
                                     Join(request[r].scope), restricted))
             /\ saved' = [saved EXCEPT ![r] = Len(AccessToken) + 1]
    /\ UNCHANGED <<config, request, require_approval, seen, token, catalog, trust, deriver>>

\* ---- the token tables the model may start from ----------------------------
PriorTokens(markers) ==
    {t \in [user : Users, application : ClientIds,
            scope : {Join(s) : s \in ScopeLists},
            expires : {Epoch, Now - 1, Now + Lifetime}] :
        t.application \in markers => t.expires = Epoch}

RECURSIVE SeqsUpTo(_, _)
SeqsUpTo(S, n) ==
    IF n = 0 THEN {<<>>}
    ELSE LET shorter == SeqsUpTo(S, n - 1) IN
         shorter \cup {Append(q, x) : q \in {s \in shorter : Len(s) = n - 1}, x \in S}

EngineIdle ==
    /\ pc = [r \in Requests |-> "idle"]
    /\ request = [r \in Requests |-> NoRequest]
    /\ require_approval = [r \in Requests |-> "unset"]
    /\ seen = [r \in Requests |-> 0]
    /\ token = [r \in Requests |-> NoToken]
    /\ issuance = [r \in Requests |-> NoIssuance]
    /\ saved = [r \in Requests |-> 0]
    /\ did = [r \in Requests |-> <<>>]
    /\ response = [r \in Requests |-> "none"]

CatalogIdle ==
    /\ client = [type |-> "NoneType", scopes |-> <<>>]
    /\ all_scopes = {}
    /\ available = [called |-> FALSE, raised |-> "", returned |-> {}]

TrustIdle ==
    /\ subject = NoToken
    /\ original = NoToken
    /\ applied = 0
    /\ verified = [called |-> FALSE, returned |-> FALSE, before |-> NoToken, after |-> NoToken]

NoApplication == [authorization_grant_type |-> "none", organizations |-> <<>>]

DeriverIdle ==
    /\ scoped = NoApplication
    /\ filters = [called |-> FALSE, returned |-> <<>>, after |-> NoApplication]

\* two handlers that serve requests at once, under the toolkit's own default mode
Init ==
    /\ restricted \in SUBSET ClientIds
    /\ skip_authorization = [c \in ClientIds |-> c = 2]
    /\ REQUEST_APPROVAL_PROMPT = "force"
    /\ workers = Requests
    /\ AccessToken \in SeqsUpTo(PriorTokens(restricted), MaxPrior)
    /\ EngineIdle
    /\ CatalogIdle
    /\ TrustIdle
    /\ DeriverIdle

\* one handler that serves one request, under every configured default mode
InitSolo ==
    /\ restricted \in SUBSET ClientIds
    /\ skip_authorization = [c \in ClientIds |-> c = 2]
    /\ REQUEST_APPROVAL_PROMPT \in ApprovalDefaults
    /\ workers = {1}
    /\ AccessToken \in SeqsUpTo(PriorTokens(restricted), MaxPrior)
    /\ EngineIdle
    /\ CatalogIdle
    /\ TrustIdle
    /\ DeriverIdle

Next ==
    \/ \E r \in Requests : get(r)
    \/ \E r \in Requests : check_authorization(r)
    \/ \E r \in Requests : create_authorization_response(r)

Spec == Init /\ [][Next]_vars

SpecSolo == InitSolo /\ [][Next]_vars

\* ---- scopes.py: ApplicationModelScopes -------------------------------------

\* a Python str object
Str(value) == [type |-> "str", value |-> value]

\* the names getattr finds on an object
attributes(obj) ==
    IF obj.type = "ScopedApplication" THEN {"scopes", "skip_authorization", "client_id"}
    ELSE IF obj.type = "Application" THEN {"skip_authorization", "client_id"}
    ELSE IF obj.type = "str" THEN {"upper", "split", "join"}
    ELSE {}

\* the builtin hasattr(obj, name): the name must be a string
hasattr(obj, name) ==
    IF name.type # "str"
    THEN [raised |-> "TypeError", returned |-> FALSE]
    ELSE [raised |-> "", returned |-> name.value \in attributes(obj)]

\* SettingsScopes.get_available_scopes: every scope of the registry
SettingsScopes_get_available_scopes(registry) == registry

\* ApplicationModelScopes.get_available_scopes, with get_all_scopes().keys() = registry
get_available_scopes(app, registry) ==
    LET has == hasattr(Str("scopes"), app) IN
    IF has.raised # ""
    THEN [called |-> TRUE, raised |-> has.raised, returned |-> {}]
    ELSE IF has.returned
    THEN [called |-> TRUE, raised |-> "", returned |-> ToSet(app.scopes) \cap registry]
    ELSE [called |-> TRUE, raised |-> "",
          returned |-> SettingsScopes_get_available_scopes(registry)]

\* the applications a caller may hand over: none, a plain one, one that declares scopes
Applications ==
    {[type |-> "NoneType", scopes |-> <<>>], [type |-> "Application", scopes |-> <<>>]}
    \cup {[type |-> "ScopedApplication", scopes |-> s] : s \in SeqsUpTo(ScopeNames, MaxScopes)}

call_get_available_scopes ==
    /\ ~available.called
    /\ available' = get_available_scopes(client, all_scopes)
    /\ UNCHANGED <<engine, client, all_scopes, trust, deriver>>

InitCatalog ==
    /\ restricted = {}
    /\ skip_authorization = [c \in ClientIds |-> c = 2]
    /\ REQUEST_APPROVAL_PROMPT = "force"
    /\ workers = {}
    /\ AccessToken = <<>>
    /\ EngineIdle
    /\ client \in Applications
    /\ all_scopes \in SUBSET ScopeNames
    /\ available = [called |-> FALSE, raised |-> "", returned |-> {}]
    /\ TrustIdle
    /\ DeriverIdle

NextCatalog == call_get_available_scopes

SpecCatalog == InitCatalog /\ [][NextCatalog]_vars

\* ---- models.py: the RestrictedApplication methods on one token ------------

call_set_access_token_as_expired ==
    /\ applied < MaxApply
    /\ subject' = set_access_token_as_expired(subject)
    /\ applied' = applied + 1
    /\ UNCHANGED <<engine, catalog, original, verified, deriver>>

call_verify_access_token_as_expired ==
    /\ UNCHANGED <<engine, catalog, subject, original, applied, deriver>>
    /\ verified' = [called |-> TRUE,
                    returned |-> verify_access_token_as_expired(subject),
                    before |-> subject, after |-> subject']

InitTrust ==
    /\ restricted = {}
    /\ skip_authorization = [c \in ClientIds |-> c = 2]
    /\ REQUEST_APPROVAL_PROMPT = "force"
    /\ workers = {}
    /\ AccessToken = <<>>
    /\ EngineIdle
    /\ CatalogIdle
    /\ subject \in [user : Users, application : ClientIds,
                    scope : {Join(s) : s \in ScopeLists},
                    expires : (Epoch - 1)..(Now + Lifetime)]
    /\ original = subject
    /\ applied = 0
    /\ verified = [called |-> FALSE, returned |-> FALSE, before |-> NoToken, after |-> NoToken]
    /\ DeriverIdle

NextTrust ==
    \/ call_set_access_token_as_expired
    \/ call_verify_access_token_as_expired

SpecTrust == InitTrust /\ [][NextTrust]_vars

\* ---- models.py: ScopedApplication.authorization_filters ---------------------

GRANT_CLIENT_CREDENTIALS == "client-credentials"
FILTER_USER_ME == <<"user", ":", "me">>
CONTENT_PROVIDER_TYPE == "content_org"

\* ':'.join(parts): the parts with a colon between each two
RECURSIVE JoinColon(_)
JoinColon(parts) ==
    IF Len(parts) <= 1 THEN parts
    ELSE <<Head(parts), ":">> \o JoinColon(Tail(parts))

\* authorization_filters that marks every application as acting for itself
authorization_filters_always_me(app) ==
    [i \in 1..Len(app.organizations) |->
        JoinColon(<<app.organizations[i].provider_type, app.organizations[i].short_name>>)]
    \o <<FILTER_USER_ME>>

\* ScopedApplication.authorization_filters
authorization_filters(app) ==
    LET tags == [i \in 1..Len(app.organizations) |->
                    JoinColon(<<app.organizations[i].provider_type,
                                app.organizations[i].short_name>>)]
    IN IF app.authorization_grant_type = GRANT_CLIENT_CREDENTIALS
       THEN Append(tags, FILTER_USER_ME)
       ELSE tags

\* the rows of ScopedApplicationOrganization an application may have
Organizations ==
    [provider_type : {CONTENT_PROVIDER_TYPE}, short_name : ShortNames]

call_authorization_filters ==
    /\ ~filters.called
    /\ UNCHANGED <<engine, catalog, trust, scoped>>
    /\ filters' = [called |-> TRUE, returned |-> authorization_filters(scoped),
                   after |-> scoped']

InitDeriver ==
    /\ restricted = {}
    /\ skip_authorization = [c \in ClientIds |-> c = 2]
    /\ REQUEST_APPROVAL_PROMPT = "force"
    /\ workers = {}
    /\ AccessToken = <<>>
    /\ EngineIdle
    /\ CatalogIdle
    /\ TrustIdle
    /\ scoped \in [authorization_grant_type : GrantTypes,
                    organizations : SeqsUpTo(Organizations, MaxOrgs)]
    /\ filters = [called |-> FALSE, returned |-> <<>>, after |-> NoApplication]

NextDeriver == call_authorization_filters

SpecDeriver == InitDeriver /\ [][NextDeriver]_vars

\* ---- what the handlers have done -------------------------------------------

Calls(r) == ToSet(did[r])

\* validate_authorization_request returned and the application was found
PassedValidation(r) ==
    /\ pc[r] \in {"skip_check", "grant", "done"}
    /\ Len(did[r]) >= 2
    /\ did[r][1] = "validate_authorization_request"
    /\ did[r][2] = "objects.get"
    /\ "DoesNotExist" \notin Calls(r)

\* the handler is past the skip check and the scan
Decided(r) == PassedValidation(r) /\ pc[r] \in {"grant", "done"}

\* the approval mode of the request, the configured default standing in for an unset one
Mode(r) ==
    IF request[r].approval_prompt = "unset"
    THEN REQUEST_APPROVAL_PROMPT
    ELSE request[r].approval_prompt

\* row i was issued to the user and application of the request of r
SamePair(r, i) ==
    /\ AccessToken[i].user = request[r].user
    /\ AccessToken[i].application = request[r].client_id

\* row i records every scope the request of r asks for
Covers(r, i) == ToSet(request[r].scope) \subseteq ToSet(Split(AccessToken[i].scope))

\* a row that was in the table when r queried it covers the request
CoveredBefore(r) == \E i \in 1..seen[r] : SamePair(r, i) /\ Covers(r, i)

IssuedWithAllow(r) ==
    /\ "create_authorization_response" \in Calls(r)
    /\ issuance[r] = [scopes |-> Join(request[r].scope), allow |-> TRUE,
                      client_id |-> request[r].client_id]

IssuanceRaised(r) ==
    /\ response[r] = "Error"
    /\ did[r][Len(did[r]) - 1] = "create_authorization_response"
    /\ did[r][Len(did[r])] = "error_response"

\* ---- claims -------------------------------------------------------------------

\* C1 as stated: under auto_even_if_expired, for a validated request to an application
\* that does not skip authorization, a prior token of the same user and application whose
\* scopes cover the request makes get end in Grant (the redirect), never in the consent
\* form, whatever the expiry of that token.
C1_SilentReuse_AsStated ==
    \A r \in Requests :
        (Decided(r) /\ pc[r] = "done" /\ ~skip_authorization[request[r].client_id]
            /\ CoveredBefore(r))
        => (response[r] = "Grant" /\ "render_to_response" \notin Calls(r))

\* C1 amended: in that case get never renders the consent form and calls
\* create_authorization_response with allow=True and the requested scopes; it ends in
\* Grant unless that call raises a protocol error, and then it ends in Error.
C1_SilentReuse ==
    \A r \in Requests :
        (Decided(r) /\ ~skip_authorization[request[r].client_id] /\ CoveredBefore(r))
        => /\ "render_to_response" \notin Calls(r)
           /\ response[r] # "Prompt"
           /\ pc[r] = "done" =>
                /\ IssuedWithAllow(r)
                /\ response[r] = "Grant" \/ IssuanceRaised(r)

C1_Witness ==
    \E r \in Requests :
        /\ response[r] = "Grant"
        /\ ~skip_authorization[request[r].client_id]
        /\ request[r].scope = <<"read">>
        /\ \E i \in 1..seen[r] :
            /\ SamePair(r, i)
            /\ Split(AccessToken[i].scope) = <<"read", "write">>
            /\ AccessToken[i].expires = Epoch

\* C2: under auto_even_if_expired, for a validated request to an application that does
\* not skip authorization, when no prior token of the same user and application covers
\* the requested scopes (none at all included), get renders the consent form and never
\* calls create_authorization_response.
C2_NoSupersetPrompt ==
    \A r \in Requests :
        (Decided(r) /\ ~skip_authorization[request[r].client_id] /\ ~CoveredBefore(r))
        => /\ pc[r] = "done"
           /\ response[r] = "Prompt"
           /\ "render_to_response" \in Calls(r)
           /\ "create_authorization_response" \notin Calls(r)
           /\ issuance[r] = NoIssuance

C2_Witness ==
    \E r \in Requests :
        /\ response[r] = "Prompt"
        /\ request[r].scope = <<"read", "write">>
        /\ \E i \in 1..seen[r] : SamePair(r, i) /\ Split(AccessToken[i].scope) = <<"read">>

\* C3: under auto_even_if_expired, a validated request to an application whose
\* skip_authorization is true goes to Grant with allow=True for every table of prior
\* tokens and every requested scope list, without querying the prior tokens and without
\* rendering the consent form.
C3_SkipBypassesHistory ==
    \A r \in Requests :
        (Decided(r) /\ skip_authorization[request[r].client_id])
        => /\ "accesstoken_set.filter" \notin Calls(r)
           /\ "render_to_response" \notin Calls(r)
           /\ seen[r] = 0
           /\ token[r] = NoToken
           /\ response[r] # "Prompt"
           /\ pc[r] = "done" => IssuedWithAllow(r)

C3_Witness ==
    \E r \in Requests :
        /\ response[r] = "Grant"
        /\ skip_authorization[request[r].client_id]
        /\ request[r].scope = <<"read", "write">>
        /\ \A i \in 1..(Len(AccessToken) - 1) : ~(SamePair(r, i) /\ Covers(r, i))
        /\ \E i \in 1..(Len(AccessToken) - 1) : SamePair(r, i)

\* C4: a request whose approval mode is not auto_even_if_expired, the configured default
\* standing in for an unset parameter, is handed to the base view: the override
\* validates nothing, checks no skip flag, scans no tokens and issues nothing.
C4_LegacyPassthrough ==
    \A r \in Requests :
        (pc[r] # "idle" /\ Mode(r) # "auto_even_if_expired")
        => /\ pc[r] = "done"
           /\ response[r] = "Passthrough"
           /\ did[r] = <<"super.get">>
           /\ seen[r] = 0
           /\ token[r] = NoToken
           /\ issuance[r] = NoIssuance

C4_Witness ==
    \E r \in Requests :
        /\ response[r] = "Passthrough"
        /\ request[r].approval_prompt = "unset"
        /\ REQUEST_APPROVAL_PROMPT = "force"
        /\ \E i \in 1..Len(AccessToken) : SamePair(r, i) /\ Covers(r, i)

C6_ErrorsLeaveNoState ==
    /\ [](\A r \in Requests :
            response[r] = "Error"
            => /\ pc[r] = "done"
               /\ "render_to_response" \notin Calls(r)
               /\ "HttpResponseUriRedirect" \notin Calls(r)
               /\ did[r][Len(did[r])] = "error_response")
    /\ [][/\ \A r \in Requests :
                (response[r] # "Error" /\ response'[r] = "Error")
                => AccessToken' = AccessToken
          /\ AccessToken' # AccessToken
                => \E r \in Requests :
                    /\ response[r] = "none"
                    /\ response'[r] = "Grant"
                    /\ Len(AccessToken') = Len(AccessToken) + 1
                    /\ SubSeq(AccessToken', 1, Len(AccessToken)) = AccessToken]_vars

C6_Witness ==
    \E r \in Requests :
        /\ IssuanceRaised(r)
        /\ CoveredBefore(r)
        /\ Len(AccessToken) = MaxPrior

\* C7 as stated: for an application that declares a scope list S and a registry G,
\* get_available_scopes returns S intersected with the keys of G.
C7_ScopeIntersection_AsStated ==
    (available.called /\ client.type = "ScopedApplication")
    => /\ available.raised = ""
       /\ available.returned = ToSet(client.scopes) \cap all_scopes

\* C8 as stated: for an application without a declared scope list, and for no application
\* at all, get_available_scopes returns every key of the registry and raises nothing.
C8_ScopeFallback_AsStated ==
    (available.called /\ client.type # "ScopedApplication")
    => /\ available.raised = ""
       /\ available.returned = all_scopes

\* C9: verify_access_token_as_expired returns true exactly when the expiry of the token
\* is the epoch sentinel, false for every other instant before or after now, and leaves
\* the token as it was.
C9_SentinelExactness ==
    verified.called
    => /\ verified.returned <=> (verified.before.expires = Epoch)
       /\ verified.after = verified.before

C9_Witness ==
    /\ verified.called
    /\ ~verified.returned
    /\ verified.before.expires < Now
    /\ applied = 0

\* C10: set_access_token_as_expired sets expires to the epoch sentinel whatever it was
\* and changes no other field, so a second call changes nothing, and
\* verify_access_token_as_expired is true of the token after one call or more.
C10_IdempotentRestriction ==
    applied >= 1
    => /\ subject = [original EXCEPT !.expires = Epoch]
       /\ verify_access_token_as_expired(subject)
       /\ set_access_token_as_expired(subject) = subject

C10_Witness ==
    /\ applied = 2
    /\ original.expires = Now - 1
    /\ verified.called
    /\ verified.returned
    /\ verified.before = subject

\* C11: authorization_filters returns one tag "<provider-type>:<short-name>" for every
\* organization of the application, in their order, followed by "user:me" exactly when
\* the grant type is client-credentials, so its length is the number of organizations,
\* plus one for client-credentials; the application and its organizations stay as they were.
C11_OrganizationFilters ==
    filters.called
    => LET n == Len(scoped.organizations)
           me == scoped.authorization_grant_type = "client-credentials"
       IN /\ Len(filters.returned) = IF me THEN n + 1 ELSE n
          /\ \A i \in 1..n :
                filters.returned[i] = <<scoped.organizations[i].provider_type, ":",
                                        scoped.organizations[i].short_name>>
          /\ me => filters.returned[n + 1] = <<"user", ":", "me">>
          /\ filters.after = scoped

C11_Witness ==
    /\ filters.called
    /\ scoped.authorization_grant_type = "authorization-code"
    /\ Len(scoped.organizations) = 2
    /\ scoped.organizations[1].short_name # scoped.organizations[2].short_name
    /\ Len(filters.returned) = 2

\* request b asks, for the user and application of request a, for no scope that a did not
\* ask for, and a was granted before b was decided: the row a saved was in the table
\* when b queried it, or the application skips authorization
Reuses(a, b) ==
    /\ a # b
    /\ response[a] = "Grant"
    /\ saved[a] > 0
    /\ Decided(b)
    /\ request[b].user = request[a].user
    /\ request[b].client_id = request[a].client_id
    /\ ToSet(request[b].scope) \subseteq ToSet(request[a].scope)
    /\ skip_authorization[request[b].client_id] \/ seen[b] >= saved[a]

C13_ThreeOutcomes_AsStated ==
    \A r \in Requests :
        (require_approval[r] = "auto_even_if_expired" /\ pc[r] = "done")
        => response[r] \in {"Grant", "Prompt", "Error"}

\* calls of create_authorization_response made by handler r
Issuances(r) == Len(SelectSeq(did[r], LAMBDA c : c = "create_authorization_response"))

\* C14: a request that ends in Grant has called create_authorization_response exactly
\* once, also when several prior tokens match; a request that ends in Prompt, or in Error
\* because validation failed, has not called it; so no request calls it twice and the
\* table holds at most one new row for every granted request.
C14_IssuedOnce ==
    /\ \A r \in Requests :
        /\ Issuances(r) <= 1
        /\ response[r] = "Grant" => Issuances(r) = 1 /\ saved[r] > 0
        /\ response[r] = "Prompt" => Issuances(r) = 0 /\ saved[r] = 0
        /\ (response[r] = "Error" /\ ~IssuanceRaised(r))
            => /\ Issuances(r) = 0
               /\ saved[r] = 0
               /\ did[r] = <<"validate_authorization_request", "error_response">>
    /\ Len(AccessToken) <= MaxPrior + Cardinality({r \in Requests : response[r] = "Grant"})

C14_Witness ==
    \E r \in Requests :
        /\ response[r] = "Grant"
        /\ ~skip_authorization[request[r].client_id]
        /\ \E i, j \in 1..seen[r] :
            /\ i # j
            /\ SamePair(r, i) /\ Covers(r, i)
            /\ SamePair(r, j) /\ Covers(r, j)

\* C15: on both grant paths create_authorization_response gets allow=True, the credentials
\* of the request and exactly the requested scopes, never the wider scopes of the matching
\* token; so the row a grant by prior token saves records the requested scopes, which are
\* a subset of the scopes of a row the same user already held for the same application.
C15_RequestedScopesOnly ==
    \A r \in Requests :
        Issuances(r) > 0
        => /\ issuance[r].allow
           /\ issuance[r].client_id = request[r].client_id
           /\ issuance[r].scopes = Join(request[r].scope)
           /\ saved[r] > 0
                => /\ AccessToken[saved[r]].user = request[r].user
                   /\ AccessToken[saved[r]].application = request[r].client_id
                   /\ ToSet(Split(AccessToken[saved[r]].scope)) = ToSet(request[r].scope)
                   /\ ~skip_authorization[request[r].client_id]
                        => \E i \in 1..seen[r] :
                            /\ i < saved[r]
                            /\ SamePair(r, i)
                            /\ ToSet(Split(AccessToken[saved[r]].scope))
                                \subseteq ToSet(Split(AccessToken[i].scope))

C15_Witness ==
    \E r \in Requests :
        /\ response[r] = "Grant"
        /\ ~skip_authorization[request[r].client_id]
        /\ request[r].scope = <<"read">>
        /\ ToSet(Split(token[r].scope)) = {"read", "write"}
        /\ AccessToken[saved[r]].scope = <<"read">>

\* the handler was decided by the scan of the prior tokens
Scanned(r) == Decided(r) /\ ~skip_authorization[request[r].client_id]

\* the handler went on without the consent form
Silent(r) == "render_to_response" \notin Calls(r)

\* the rows of the user and application of request r in the table r queried
Mine(r) ==
    SelectSeq(SubSeq(AccessToken, 1, seen[r]),
              LAMBDA t : t.user = request[r].user /\ t.application = request[r].client_id)

\* what the scan makes of a table: TRUE for a grant, whatever order the rows come in
Verdicts(r, table) ==
    {scan(order, request[r].scope, 1) > 0 :
        order \in RetrievalOrders(
            accesstoken_set(table, request[r].user, request[r].client_id))}

\* C16: the scan of a request of user U for application A looks at the tokens of U for A
\* only: the request is decided as it is on the table without the rows of every other
\* user and application, so two tables with the same rows of (U, A) give the same
\* outcome, and the token on which the scan stops is one of U for A.
C16_GrantIsolation ==
    \A r \in Requests :
        Scanned(r)
        => /\ Verdicts(r, Mine(r)) = {Silent(r)}
           /\ Silent(r) <=> token[r] # NoToken
           /\ token[r] # NoToken
                => /\ token[r].user = request[r].user
                   /\ token[r].application = request[r].client_id

C16_Witness ==
    \E r \in Requests :
        /\ Scanned(r)
        /\ response[r] = "Prompt"
        /\ \E i \in 1..seen[r] :
            /\ AccessToken[i].user # request[r].user
            /\ AccessToken[i].application = request[r].client_id
            /\ Covers(r, i)

\* C17: for a request and the scope sets of the prior tokens of its user and application,
\* the outcome (grant or consent form) is the same whatever order the tokens are
\* retrieved in and whatever their expires are (future, past or the epoch), and the
\* scopes handed to create_authorization_response are those of the request.
C17_OrderExpiryIndependence ==
    \A r \in Requests :
        Scanned(r)
        => LET mine == Mine(r)
               rows == 1..Len(mine)
           IN /\ \A e \in [rows -> {Epoch, Now - 1, Now + Lifetime}] :
                    Verdicts(r, [i \in rows |-> [mine[i] EXCEPT !.expires = e[i]]])
                    = {Silent(r)}
              /\ Issuances(r) > 0 => Split(issuance[r].scopes) = request[r].scope

C17_Witness ==
    \E r \in Requests :
        /\ Scanned(r)
        /\ response[r] = "Grant"
        /\ \E i, j \in 1..Len(Mine(r)) :
            /\ ToSet(request[r].scope) \subseteq ToSet(Split(Mine(r)[i].scope))
            /\ ~(ToSet(request[r].scope) \subseteq ToSet(Split(Mine(r)[j].scope)))
            /\ Mine(r)[i].expires < Now
            /\ Mine(r)[j].expires > Now

\* C18: when the application of the validated client_id is not found, the request ends
\* in that error: it does not end in Grant or Prompt, calls neither
\* create_authorization_response nor render_to_response, saves no token, and the step in
\* which the lookup fails leaves the token table as it was.
C18_LookupFailure ==
    /\ [](\A r \in Requests :
            "DoesNotExist" \in Calls(r)
            => /\ pc[r] = "done"
               /\ response[r] = "DoesNotExist"
               /\ Issuances(r) = 0
               /\ Silent(r)
               /\ "HttpResponseUriRedirect" \notin Calls(r)
               /\ issuance[r] = NoIssuance
               /\ saved[r] = 0)
    /\ [][\A r \in Requests :
            ("DoesNotExist" \notin ToSet(did[r]) /\ "DoesNotExist" \in ToSet(did'[r]))
            => AccessToken' = AccessToken]_vars

C18_Witness ==
    \E r \in Requests :
        /\ "DoesNotExist" \in Calls(r)
        /\ did[r][1] = "validate_authorization_request"
        /\ ~skip_authorization[request[r].client_id]
        /\ \E i \in 1..Len(AccessToken) : SamePair(r, i) /\ Covers(r, i)

\* C19: the assertion of the mode never fails: a handler that reaches the skip check or
\* the scan of the prior tokens runs under auto_even_if_expired, and no request ends in
\* AssertionError.
C19_ModeAssertion ==
    \A r \in Requests :
        /\ response[r] # "AssertionError"
        /\ (pc[r] \in {"skip_check", "grant"} \/ "assert" \in Calls(r))
            => /\ require_approval[r] = "auto_even_if_expired"
               /\ Mode(r) = "auto_even_if_expired"

C19_Witness ==
    \E r \in Requests :
        /\ "assert" \in Calls(r)
        /\ "accesstoken_set.filter" \in Calls(r)
        /\ request[r].approval_prompt = "unset"
        /\ response[r] = "Prompt"

\* C20: no step of a request changes the skip_authorization flag or the scopes, grant
\* type or organizations of an application, adds or removes a RestrictedApplication row,
\* or changes or deletes a row of the token table; the table changes only by the one
\* row appended in the step that ends a request in Grant.
C20_ReadOnly ==
    [][/\ UNCHANGED <<restricted, skip_authorization, client, scoped>>
       /\ Len(AccessToken') >= Len(AccessToken)
       /\ SubSeq(AccessToken', 1, Len(AccessToken)) = AccessToken
       /\ Len(AccessToken') <= Len(AccessToken) + 1
       /\ Len(AccessToken') = Len(AccessToken) + 1
            => \E r \in Requests : response[r] = "none" /\ response'[r] = "Grant"]_vars

C20_Witness ==
    \E r \in Requests :
        /\ response[r] = "Grant"
        /\ Scanned(r)
        /\ request[r].client_id \notin restricted
        /\ \E i \in 1..seen[r] :
            /\ SamePair(r, i)
            /\ AccessToken[i].expires = Now - 1
            /\ AccessToken[saved[r]].expires = Now + Lifetime

====
